---- MODULE Spec2Model ----
(***************************************************************************)
(* Model of run3/flow/flow_analysis_utils.py (D-meson flow analysis).      *)
(*                                                                         *)
(* The module is a library of functions.  The state is one pending call    *)
(* (function name and arguments), the position of that call and its        *)
(* outcome.  One action per function performs the whole call.              *)
(*                                                                         *)
(* Numbers: python floats are modelled by exact values c * sqrt(r) * pi^p  *)
(* with c rational, r a square-free positive integer, p an integer.        *)
(* Rounding, overflow and underflow of IEEE doubles are not modelled.      *)
(***************************************************************************)
EXTENDS Integers, Sequences, FiniteSets, TLC

VARIABLES call, pc, result

vars == <<call, pc, result>>

----------------------------------------------------------------------------
(* Exact arithmetic standing for the float operators of the source.        *)

Abs(x) == IF x < 0 THEN -x ELSE x

RECURSIVE GCD(_, _)
GCD(a, b) == IF b = 0 THEN a ELSE GCD(b, a % b)

\* the rational n/d (d /= 0) in lowest terms with positive denominator
Rat(n, d) ==
    LET s == IF d < 0 THEN -1 ELSE 1
        g == GCD(Abs(n), Abs(d))
    IN  [n |-> (s * n) \div g, d |-> (s * d) \div g]

RInt(i) == [n |-> i, d |-> 1]

RatAdd(a, b) == Rat(a.n * b.d + b.n * a.d, a.d * b.d)
RatSub(a, b) == Rat(a.n * b.d - b.n * a.d, a.d * b.d)
RatMul(a, b) == Rat(a.n * b.n, a.d * b.d)
\* only used where the source has tested the divisor against zero
RatDiv(a, b) == Rat(a.n * b.d, a.d * b.n)
RatIsZero(a) == a.n = 0
RatIsPos(a)  == a.n > 0
RatIsNeg(a)  == a.n < 0

\* largest k with k*k dividing n (n > 0)
RECURSIVE SqFrom(_, _, _)
SqFrom(n, k, best) ==
    IF k * k > n THEN best
    ELSE SqFrom(n, k + 1, IF n % (k * k) = 0 THEN k ELSE best)

LargestSq(n) == SqFrom(n, 1, 1)

\* finite real c * sqrt(r) * pi^p
Real(c, r, p) ==
    IF c.n = 0 THEN [kind |-> "fin", c |-> RInt(0), r |-> 1, p |-> 0]
    ELSE [kind |-> "fin", c |-> c, r |-> r, p |-> p]

Zero == Real(RInt(0), 1, 0)
FromRat(q) == Real(q, 1, 0)
FromInt(i) == Real(RInt(i), 1, 0)
PosInf == [kind |-> "inf"]
NegInf == [kind |-> "-inf"]
NaN    == [kind |-> "nan"]

IsFinite(x) == x.kind = "fin"
IsZero(x)   == IsFinite(x) /\ x.c.n = 0
IsNegative(x) == \/ x.kind = "-inf"
                 \/ IsFinite(x) /\ x.c.n < 0
IsPositive(x) == \/ x.kind = "inf"
                 \/ IsFinite(x) /\ x.c.n > 0

\* np.pi
Pi == Real(RInt(1), 1, 1)

\* product of two finite reals
RealMul(a, b) ==
    LET g == GCD(a.r, b.r)
    IN  Real(RatMul(RatMul(a.c, b.c), RInt(g)),
             (a.r \div g) * (b.r \div g), a.p + b.p)

\* 1/b for a finite non-zero real
RealInv(b) == Real(RatDiv(RInt(1), RatMul(b.c, RInt(b.r))), b.r, -b.p)

\* a / b for finite reals, b /= 0
RealDiv(a, b) == RealMul(a, RealInv(b))

\* np.sqrt of a rational q >= 0
Sqrt(q) ==
    LET kn == LargestSq(IF q.n = 0 THEN 1 ELSE q.n)
        kd == LargestSq(q.d)
        rn == IF q.n = 0 THEN 1 ELSE q.n \div (kn * kn)
        rd == q.d \div (kd * kd)
    IN  Real(Rat(IF q.n = 0 THEN 0 ELSE kn, kd * rd), rn * rd, 0)

----------------------------------------------------------------------------
(* Outcomes of a call.                                                     *)

Return(v)   == [status |-> "return", value |-> v]
SysExit(c)  == [status |-> "exit", code |-> c]
Raise(e)    == [status |-> "raise", error |-> e]
NoResult    == [status |-> "none"]

----------------------------------------------------------------------------
(* compute_resolution                                                      *)

\* slip: the third mean multiplies instead of dividing
three_sub_product_mul(subMean) ==
    IF ~RatIsZero(subMean[3])
    THEN RatMul(RatMul(subMean[1], subMean[2]), subMean[3])
    ELSE RInt(0)

\* line 205: (subMean[0] * subMean[1]) / subMean[2] if subMean[2] != 0 else 0
three_sub_product(subMean) ==
    IF ~RatIsZero(subMean[3])
    THEN RatDiv(RatMul(subMean[1], subMean[2]), subMean[3])
    ELSE RInt(0)

\* slip: the square root is forgotten
guarded_sqrt_noroot(resolution) ==
    IF ~RatIsPos(resolution) THEN Zero ELSE FromRat(resolution)

\* lines 199-202 and 206-210: 0 for a non-positive value, else its root
guarded_sqrt(resolution) ==
    IF ~RatIsPos(resolution) THEN Zero ELSE Sqrt(resolution)

\* slip: a list of two means is accepted, as the error message suggests
compute_resolution_two(subMean) ==
    IF Len(subMean) \in {1, 2} THEN Return(guarded_sqrt(subMean[1]))
    ELSE IF Len(subMean) = 3 THEN Return(guarded_sqrt(three_sub_product(subMean)))
    ELSE SysExit(1)

compute_resolution(subMean) ==
    IF Len(subMean) = 1 THEN Return(guarded_sqrt(subMean[1]))
    ELSE IF Len(subMean) = 3 THEN Return(guarded_sqrt(three_sub_product(subMean)))
    ELSE SysExit(1)

----------------------------------------------------------------------------
(* Centrality histograms (TH2: centrality on x, correlation value on y).   *)
(* A histogram is a function from the native 1%-wide centrality bins       *)
(* 1..NCentBins of the axis [0, NCentBins) to the sum s and the number n   *)
(* of the values filled in that bin.  Under- and overflow bins are empty.  *)

NCentBins == 3

\* TAxis::FindBin(x) for an integer x on an axis of nbins unit-wide bins
\* starting at 0: bin b covers [b-1, b), 0 is underflow, nbins+1 overflow
FindBin(nbins, x) ==
    IF x < 0 THEN 0
    ELSE IF x >= nbins THEN nbins + 1
    ELSE x + 1

RECURSIVE SumOver(_, _, _, _)
SumOver(h, first, last, field) ==
    IF first > last THEN 0
    ELSE (IF first \in DOMAIN h THEN h[first][field] ELSE 0)
         + SumOver(h, first + 1, last, field)

\* TH2::ProjectionY(name, firstxbin, lastxbin): both ends included
ProjectionY(h, firstxbin, lastxbin) ==
    [s |-> SumOver(h, firstxbin, lastxbin, "s"),
     n |-> SumOver(h, firstxbin, lastxbin, "n")]

\* TH1::GetMean: 0 for a histogram without entries
GetMean(proj) == IF proj.n = 0 THEN RInt(0) ELSE Rat(proj.s, proj.n)

----------------------------------------------------------------------------
(* get_resolution                                                          *)

\* lines 90-98: mean over the window CentMin-CentMax
mean_deltacent(det, cent_min_max) ==
    GetMean(ProjectionY(det, FindBin(NCentBins, cent_min_max[1]),
                             FindBin(NCentBins, cent_min_max[2]) - 1))

\* lines 103-109: mean of the 1% bin of centrality cent
mean_cent(det, cent) ==
    GetMean(ProjectionY(det, FindBin(NCentBins, cent), FindBin(NCentBins, cent)))

\* line 117 and line 124: the list handed to compute_resolution
subMean_cent(dets, cent) == [i \in 1..Len(dets) |-> mean_cent(dets[i], cent)]
subMean_deltacent(dets, cent_min_max) ==
    [i \in 1..Len(dets) |-> mean_deltacent(dets[i], cent_min_max)]

get_resolution(dets, cent_min_max) ==
    LET cents == cent_min_max[1] .. (cent_min_max[2] - 1)
        reso(c) == compute_resolution(subMean_cent(dets, c))
        res_deltacent == compute_resolution(subMean_deltacent(dets, cent_min_max))
    IN  IF \E c \in cents : reso(c).status = "exit" THEN SysExit(1)
        ELSE IF res_deltacent.status = "exit" THEN SysExit(1)
        ELSE Return([histo_means |->
                         [i \in 1..Len(dets) |->
                             [c \in cents |-> mean_cent(dets[i], c)]],
                     histo_means_deltacent |-> subMean_deltacent(dets, cent_min_max),
                     histo_reso |-> [c \in cents |-> reso(c).value],
                     histo_reso_delta_cent |-> res_deltacent.value])

----------------------------------------------------------------------------
(* compute_r2                                                              *)

\* lines 295-307: the three window means (AB, AC, BC)
r2_window_mean(h, cent_min, cent_max) ==
    GetMean(ProjectionY(h, FindBin(NCentBins, cent_min),
                           FindBin(NCentBins, cent_max)))

r2_means(hists, cent_min, cent_max) ==
    [i \in 1..3 |-> r2_window_mean(hists[i], cent_min, cent_max)]

\* slip: the sentinel of compute_resolution is used
r2_formula_zero(average) ==
    LET defined == ~RatIsZero(average[3])
        reso == IF defined
                THEN RatDiv(RatMul(average[1], average[2]), average[3])
                ELSE RInt(0)
    IN  IF RatIsPos(reso) THEN Sqrt(reso) ELSE Zero

\* lines 309-310
r2_formula(average) ==
    LET defined == ~RatIsZero(average[3])
        reso == IF defined
                THEN RatDiv(RatMul(average[1], average[2]), average[3])
                ELSE RInt(-999)
    IN  IF RatIsPos(reso) THEN Sqrt(reso) ELSE FromInt(-999)

compute_r2(hists, cent_min, cent_max) ==
    Return(r2_formula(r2_means(hists, cent_min, cent_max)))

----------------------------------------------------------------------------
(* getListOfHisots                                                         *)
(* Strings are sequences of characters.                                    *)

FT0c   == <<"F", "T", "0", "c">>
FT0a   == <<"F", "T", "0", "a">>
FV0a   == <<"F", "V", "0", "a">>
TPCpos == <<"T", "P", "C", "p", "o", "s">>
FT0m   == <<"F", "T", "0", "m">>
TPCneg == <<"T", "P", "C", "n", "e", "g">>
hSpReso == <<"h", "S", "p", "R", "e", "s", "o">>
hEpReso == <<"h", "E", "p", "R", "e", "s", "o">>

\* line 167
detsA == <<FT0c, FT0a, FV0a, TPCpos, FT0m, TPCneg>>

\* lines 151-156
prefix_of(vn_method) == IF vn_method # "sp" THEN hEpReso ELSE hSpReso

\* sub occurs in s at position i
OccursAt(s, sub, i) ==
    /\ i + Len(sub) - 1 <= Len(s)
    /\ \A k \in 1..Len(sub) : s[i + k - 1] = sub[k]

\* python: sub in s
StrIn(sub, s) == \E i \in 1..(Len(s) + 1) : OccursAt(s, sub, i)

\* python: s.replace(old, ''), old not empty; occurrences are taken from the
\* left and do not overlap
RECURSIVE RemoveFrom(_, _, _)
RemoveFrom(s, old, i) ==
    IF i > Len(s) THEN <<>>
    ELSE IF OccursAt(s, old, i) THEN RemoveFrom(s, old, i + Len(old))
    ELSE <<s[i]>> \o RemoveFrom(s, old, i + 1)

StrRemove(s, old) == RemoveFrom(s, old, 1)

\* slip: the third record is not tested for detC
label_test_noC(triplet, detA, prefix) ==
    LET detB == StrRemove(StrRemove(triplet[1], prefix), detA)
    IN  /\ StrIn(detA, triplet[1]) /\ StrIn(detA, triplet[2])
        /\ StrIn(detB, triplet[1]) /\ StrIn(detB, triplet[3])

\* slip: the third record is not tested at all
label_test_no3(triplet, detA, prefix) ==
    /\ StrIn(detA, triplet[1]) /\ StrIn(detA, triplet[2])

\* lines 174-178
label_test(triplet, detA, prefix) ==
    LET detB == StrRemove(StrRemove(triplet[1], prefix), detA)
        detC == StrRemove(StrRemove(triplet[2], prefix), detA)
    IN  /\ StrIn(detA, triplet[1]) /\ StrIn(detA, triplet[2])
        /\ StrIn(detB, triplet[1]) /\ StrIn(detB, triplet[3])
        /\ StrIn(detC, triplet[2]) /\ StrIn(detC, triplet[3])

\* line 180
label_of(triplet, detA, prefix) ==
    <<detA, StrRemove(StrRemove(triplet[1], prefix), detA),
            StrRemove(StrRemove(triplet[2], prefix), detA)>>

\* itertools.combinations(range(n), 3), in its lexicographic order
RECURSIVE CombFrom(_, _, _, _)
CombFrom(i, j, k, n) ==
    IF n < 3 THEN <<>>
    ELSE <<<<i, j, k>>>> \o
         (IF k < n THEN CombFrom(i, j, k + 1, n)
          ELSE IF j < n - 1 THEN CombFrom(i, j + 1, j + 2, n)
          ELSE IF i < n - 2 THEN CombFrom(i + 1, i + 2, i + 3, n)
          ELSE <<>>)

combinations3(n) == CombFrom(1, 2, 3, n)

\* lines 173-180 for one triplet: the canonical labels that pass, in order
passing_detsA(triplet, prefix) ==
    SelectSeq(detsA, LAMBDA detA : label_test(triplet, detA, prefix))

\* lines 172-180: the two output lists, appended to together
RECURSIVE resolve_from(_, _, _, _)
resolve_from(pairs, prefix, combs, t) ==
    IF t > Len(combs)
    THEN [correct_histo_triplets |-> <<>>, correct_histo_labels |-> <<>>]
    ELSE
    LET c       == combs[t]
        triplet == <<pairs[c[1]], pairs[c[2]], pairs[c[3]]>>
        ok      == passing_detsA(triplet, prefix)
        rest    == resolve_from(pairs, prefix, combs, t + 1)
    IN  [correct_histo_triplets |->
             [m \in 1..Len(ok) |-> c] \o rest.correct_histo_triplets,
         correct_histo_labels |->
             [m \in 1..Len(ok) |-> label_of(triplet, ok[m], prefix)]
                 \o rest.correct_histo_labels]

\* pairs: the key names of the directory, in directory order; the histogram
\* read from key i stands for itself as the index i
getListOfHisots(pairs, vn_method) ==
    Return(resolve_from(pairs, prefix_of(vn_method),
                        combinations3(Len(pairs)), 1))

----------------------------------------------------------------------------
(* get_vn_versus_mass                                                      *)
(* hist_vn_proj (line 31) is a TH2 with the mass on x and vn on y: a       *)
(* function from the native mass bins 1..NMassBins of the axis             *)
(* [0, NMassBins) to the sum s and the number n of the vn values of that   *)
(* bin.                                                                    *)

NMassBins == 4

\* lines 41-42: the native bins of the two edges of profile bin i
bin_low_of(invmass_bins, i)  == FindBin(NMassBins, invmass_bins[i])
bin_high_of(invmass_bins, i) == FindBin(NMassBins, invmass_bins[i + 1])

\* TH2::ProfileY(name, firstxbin, lastxbin).GetMean(): the mean of y over
\* the x bins firstxbin..lastxbin, both included
ProfileYMean(h, firstxbin, lastxbin) ==
    GetMean(ProjectionY(h, firstxbin, lastxbin))

\* lines 35-54: one value per pair of consecutive edges
get_vn_versus_mass(hist_vn_proj, inv_mass_bins) ==
    Return([i \in 1..(Len(inv_mass_bins) - 1) |->
               ProfileYMean(hist_vn_proj, bin_low_of(inv_mass_bins, i),
                                          bin_high_of(inv_mass_bins, i))])

----------------------------------------------------------------------------
(* get_ep_vn                                                               *)

\* python "/" of line 475-476.  A zero divisor raises ZeroDivisionError for
\* python scalars; when an operand is a numpy float64 the quotient is
\* inf, -inf or nan (with a warning) and execution continues.
py_div(a, b, isNumpy) ==
    IF ~IsZero(b) THEN Return(RealDiv(a, b))
    ELSE IF ~isNumpy THEN Raise("ZeroDivisionError")
    ELSE IF IsZero(a) THEN Return(NaN)
    ELSE IF IsPositive(a) THEN Return(PosInf)
    ELSE Return(NegInf)

\* line 464
anis_of(nIn, nOut) == RatDiv(RatSub(nIn, nOut), RatAdd(nIn, nOut))

\* line 465
anisDerivIn_of(nIn, nOut) ==
    RatDiv(RatMul(RInt(2), nOut),
           RatMul(RatAdd(nIn, nOut), RatAdd(nIn, nOut)))

\* slip: the sign of the derivative is lost
anisDerivOut_of_plus(nIn, nOut) ==
    RatDiv(RatMul(RInt(2), nIn),
           RatMul(RatAdd(nIn, nOut), RatAdd(nIn, nOut)))

\* line 466
anisDerivOut_of(nIn, nOut) ==
    RatDiv(RatMul(RInt(-2), nIn),
           RatMul(RatAdd(nIn, nOut), RatAdd(nIn, nOut)))

\* lines 467-469
anisunc_of(nIn, nInUnc, nOut, nOutUnc, corr) ==
    LET dIn  == anisDerivIn_of(nIn, nOut)
        dOut == anisDerivOut_of(nIn, nOut)
        t1 == RatMul(RatMul(dIn, dIn), RatMul(nInUnc, nInUnc))
        t2 == RatMul(RatMul(dOut, dOut), RatMul(nOutUnc, nOutUnc))
        t3 == RatMul(RatMul(RatMul(RInt(2), dIn), RatMul(dOut, nInUnc)),
                     RatMul(nOutUnc, corr))
    IN  RatAdd(RatAdd(t1, t2), t3)

\* line 461
zero_total(nIn, nOut) == RatIsZero(RatAdd(nIn, nOut))

\* slip: a zero variance is rejected too
variance_rejected_le(anisunc) == ~RatIsPos(anisunc)

\* line 470
variance_rejected(anisunc) == RatIsNeg(anisunc)

\* line 475-476: harmonic * harmonic * resol
vn_denominator(harmonic, resol) == RealMul(FromInt(harmonic * harmonic), resol)

\* a.yieldsNumpy: the yields are numpy float64 scalars rather than python floats
get_ep_vn(a) ==
    IF zero_total(a.nIn, a.nOut) THEN Return(<<Zero, Zero>>)
    ELSE
    LET anis    == anis_of(a.nIn, a.nOut)
        anisunc == anisunc_of(a.nIn, a.nInUnc, a.nOut, a.nOutUnc, a.corr)
    IN  IF variance_rejected(anisunc) THEN Return(<<Zero, Zero>>)
        ELSE
        LET den   == vn_denominator(a.harmonic, a.resol)
            vn    == py_div(RealMul(Pi, FromRat(anis)), den, a.yieldsNumpy)
            \* np.sqrt returns a numpy float64
            vnunc == py_div(RealMul(Pi, Sqrt(anisunc)), den, TRUE)
        IN  IF vn.status = "raise" THEN vn
            ELSE IF vnunc.status = "raise" THEN vnunc
            ELSE Return(<<vn.value, vnunc.value>>)

----------------------------------------------------------------------------
(* check_file_exists, check_histo_exists, getD0ReflHistos (lines 480-565).  *)
(* A file on disk is a record: exists is os.path.exists of its path, keys   *)
(* the set of names of the histograms it holds.                            *)

\* os.path.exists(file_path), lines 492-495
check_file_exists(file) == file.exists

\* f'{kind}_{ptMin}0_{ptMax}0': each edge is followed by the digit 0, so
\* for an integer edge the name reads ten times the edge
histo_name_of(kind, ptMin, ptMax) == <<kind, 10 * ptMin, 10 * ptMax>>

\* TFile::Get: the object of that name, or a null pointer
NullPtr == [null |-> TRUE]
TFileGet(file, name) ==
    IF name \in file.keys
    THEN [null |-> FALSE, name |-> name, added |-> {name}]
    ELSE NullPtr

\* python truth value of what TFile::Get returns, and its comparison with
\* None: a null pointer is false and equal to None
IsNone(obj) == obj.null

\* TH1::Add(h1): with a null h1 it reports an error and leaves the
\* histogram as it was
TH1Add(h, h1) == IF h1.null THEN h ELSE [h EXCEPT !.added = @ \cup h1.added]

SetName(h, name) == [h EXCEPT !.name = name]

\* lines 512-517
check_histo_exists(file, histo_name) ==
    IF ~check_file_exists(file) THEN Return(FALSE)
    ELSE Return(~IsNone(TFileGet(file, histo_name)))

\* zip(ptMins, ptMaxs): as long as the shorter of the two
zip(a, b) ==
    [i \in 1..(IF Len(a) <= Len(b) THEN Len(a) ELSE Len(b)) |-> <<a[i], b[i]>>]

\* a method called through a null pointer raises; which exception depends
\* on the binding
NullCallErrors == {"AttributeError", "ReferenceError"}

\* the loop of lines 545-561 from pT bin iPt (counted from 1) onwards
RECURSIVE refl_loop(_, _, _, _, _, _)
refl_loop(file, pts, iPt, hMCSgn, hMCRefl, nullError) ==
    IF iPt > Len(pts) THEN Return(<<TRUE, hMCSgn, hMCRefl>>)
    ELSE
    LET ptMin  == pts[iPt][1]
        ptMax  == pts[iPt][2]
        fd     == TFileGet(file, histo_name_of("hFDMass", ptMin, ptMax))
        prompt == TFileGet(file, histo_name_of("hPromptMass", ptMin, ptMax))
        refl   == TFileGet(file, histo_name_of("hVarReflMass", ptMin, ptMax))
    IN  \* line 550: Add is called on the result of Get before any test
        IF fd.null THEN Raise(nullError)
        ELSE
        LET sgn == TH1Add(fd, prompt)
        IN  IF IsNone(sgn) THEN Return(FALSE)                  \* line 551
            ELSE IF IsNone(refl) THEN Return(FALSE)            \* line 559
            ELSE refl_loop(file, pts, iPt + 1,
                           Append(hMCSgn, SetName(sgn, <<"histSgn", iPt - 1>>)),
                           Append(hMCRefl, SetName(refl, <<"histRfl", iPt - 1>>)),
                           nullError)

\* lines 539-565
getD0ReflHistos(reflFile, ptMins, ptMaxs, nullError) ==
    IF ~check_file_exists(reflFile) THEN Return(FALSE)
    ELSE refl_loop(reflFile, zip(ptMins, ptMaxs), 1, <<>>, <<>>, nullError)

----------------------------------------------------------------------------
(* Inputs                                                                  *)

MaxMean == 2
MaxSubMean == 4
MaxHarmonic == 2
MaxYield == 2
MaxUnc == 1
MaxCorr == 4

\* mean correlation values: multiples of 1/2 in [-MaxMean/2, MaxMean/2]
MeanVals == { Rat(n, 2) : n \in -MaxMean..MaxMean }

SeqsOfLen(S, k) == [1..k -> S]

SubMeanInputs == UNION { SeqsOfLen(MeanVals, k) : k \in 0..MaxSubMean }

Calls_compute_resolution ==
    { [fn |-> "compute_resolution", subMean |-> sm] : sm \in SubMeanInputs }

\* resolution values handed to get_ep_vn: the default 1 and what
\* compute_resolution returns for some lists of one and of three means,
\* its sentinel 0 among them
ResolVals ==
    {FromInt(1)} \cup
    { compute_resolution(sm).value :
        sm \in { <<Rat(-1, 2)>>, <<RInt(0)>>, <<Rat(1, 2)>>, <<RInt(1)>>,
                 <<RInt(1), Rat(1, 2), RInt(2)>>,
                 <<RInt(1), RInt(1), RInt(0)>> } }

YieldVals == { RInt(n) : n \in -1..MaxYield }
UncVals   == { RInt(n) : n \in 0..MaxUnc }
\* correlation coefficients, multiples of 1/2; values beyond [-1, 1] are
\* numerically inconsistent inputs the function has to reject
CorrVals  == { Rat(n, 2) : n \in -MaxCorr..MaxCorr }

Calls_get_ep_vn ==
    { [fn |-> "get_ep_vn", harmonic |-> h, nIn |-> i, nInUnc |-> iu,
       nOut |-> o, nOutUnc |-> ou, resol |-> r, corr |-> c, yieldsNumpy |-> np] :
        h \in 1..MaxHarmonic, i \in YieldVals, iu \in UncVals,
        o \in YieldVals, ou \in UncVals, r \in ResolVals, c \in CorrVals,
        np \in BOOLEAN }

\* content of one native bin: empty, one value +1, one value -1
BinVals == { [s |-> 0, n |-> 0], [s |-> 1, n |-> 1], [s |-> -1, n |-> 1] }

\* centrality histograms with an entry in every bin
Hists == [1..NCentBins -> { v \in BinVals : v.n > 0 }]

\* centrality windows [min, max) inside the axis
Windows == { <<lo, hi>> \in (0..NCentBins) \X (0..NCentBins) : lo < hi }

Calls_get_resolution ==
    { [fn |-> "get_resolution", dets |-> d, cent_min_max |-> w] :
        d \in UNION { SeqsOfLen(Hists, k) : k \in 0..3 }, w \in Windows }

Calls_compute_r2 ==
    { [fn |-> "compute_r2", hists |-> d, cent_min |-> w[1], cent_max |-> w[2]] :
        d \in SeqsOfLen(Hists, 3), w \in Windows }

MaxPairs == 4

\* a pair record: two different canonical detectors, named in either order
PairRecords == { r \in (1..Len(detsA)) \X (1..Len(detsA)) : r[1] # r[2] }

\* a directory of k keys holds one record per pair of detectors
DirectoriesOf(records, k) ==
    { d \in SeqsOfLen(records, k) :
        \A i, j \in 1..k :
            i < j => {d[i][1], d[i][2]} # {d[j][1], d[j][2]} }

\* every directory of three keys over the six canonical detectors
TripletDirectories == DirectoriesOf(PairRecords, 3)

\* the directories of up to MaxPairs keys over the first four detectors,
\* each key naming the detector that comes first in detsA first
ListDirectories ==
    UNION { DirectoriesOf({ r \in PairRecords : r[1] < r[2] /\ r[2] <= 4 }, k) :
            k \in 0..MaxPairs }

\* the key name <prefix><DetX><DetY> of a record
key_name(r, vn_method) == prefix_of(vn_method) \o detsA[r[1]] \o detsA[r[2]]

\* the call on directory d of the file of method m
call_getListOfHisots(d, m) ==
    [fn |-> "getListOfHisots", records |-> d, vn_method |-> m,
     pairs |-> [i \in 1..Len(d) |-> key_name(d[i], m)]]

Calls_getListOfHisots ==
    { call_getListOfHisots(d, m) :
        d \in TripletDirectories \cup ListDirectories, m \in {"sp", "ep"} }

MassHists == [1..NMassBins -> BinVals]

\* increasing mass-bin edges on native bin boundaries, at least two
RECURSIVE SortedSeq(_)
SortedSeq(S) ==
    IF S = {} THEN <<>>
    ELSE LET m == CHOOSE x \in S : \A y \in S : x <= y
         IN  <<m>> \o SortedSeq(S \ {m})

MassEdges == { SortedSeq(S) : S \in { T \in SUBSET (0..NMassBins) : Cardinality(T) >= 2 } }

Calls_get_vn_versus_mass ==
    { [fn |-> "get_vn_versus_mass", hist_vn_proj |-> h, inv_mass_bins |-> e] :
        h \in MassHists, e \in MassEdges }

\* pT bins 1-2, 2-3, ...; ptMins and ptMaxs may differ in length
MaxPtBins == 2

ReflKinds == {"hFDMass", "hPromptMass", "hVarReflMass"}

ReflNames ==
    { histo_name_of(k, i, i + 1) : k \in ReflKinds, i \in 1..MaxPtBins }

\* an absent file, or a file holding any set of the named histograms
ReflFiles ==
    {[exists |-> FALSE, keys |-> {}]}
    \cup { [exists |-> TRUE, keys |-> K] : K \in SUBSET ReflNames }

Calls_getD0ReflHistos ==
    { [fn |-> "getD0ReflHistos", reflFile |-> f,
       ptMins |-> [i \in 1..n |-> i], ptMaxs |-> [i \in 1..m |-> i + 1]] :
        f \in ReflFiles, n \in 0..MaxPtBins, m \in 0..MaxPtBins }

Calls_check_histo_exists ==
    { [fn |-> "check_histo_exists", file |-> f, histo_name |-> h] :
        f \in ReflFiles, h \in ReflNames }

----------------------------------------------------------------------------
Finish(r) ==
    /\ result' = r
    /\ pc' = IF r.status = "return" THEN "returned"
             ELSE IF r.status = "exit" THEN "exited" ELSE "raised"
    /\ UNCHANGED call

Do_compute_resolution ==
    /\ pc = "called"
    /\ call.fn = "compute_resolution"
    /\ Finish(compute_resolution(call.subMean))

Do_get_ep_vn ==
    /\ pc = "called"
    /\ call.fn = "get_ep_vn"
    /\ Finish(get_ep_vn(call))

Do_get_resolution ==
    /\ pc = "called"
    /\ call.fn = "get_resolution"
    /\ Finish(get_resolution(call.dets, call.cent_min_max))

Do_compute_r2 ==
    /\ pc = "called"
    /\ call.fn = "compute_r2"
    /\ Finish(compute_r2(call.hists, call.cent_min, call.cent_max))

Do_getListOfHisots ==
    /\ pc = "called"
    /\ call.fn = "getListOfHisots"
    /\ Finish(getListOfHisots(call.pairs, call.vn_method))

Do_get_vn_versus_mass ==
    /\ pc = "called"
    /\ call.fn = "get_vn_versus_mass"
    /\ Finish(get_vn_versus_mass(call.hist_vn_proj, call.inv_mass_bins))

Do_check_histo_exists ==
    /\ pc = "called"
    /\ call.fn = "check_histo_exists"
    /\ Finish(check_histo_exists(call.file, call.histo_name))

Do_getD0ReflHistos ==
    /\ pc = "called"
    /\ call.fn = "getD0ReflHistos"
    /\ \E e \in NullCallErrors :
          Finish(getD0ReflHistos(call.reflFile, call.ptMins, call.ptMaxs, e))

InitWith(calls) ==
    /\ call \in calls
    /\ pc = "called"
    /\ result = NoResult

\* the resolution functions
InitReso ==
    InitWith(Calls_compute_resolution \cup Calls_get_resolution
             \cup Calls_compute_r2)
NextReso ==
    \/ Do_compute_resolution
    \/ Do_get_resolution
    \/ Do_compute_r2
SpecReso == InitReso /\ [][NextReso]_vars

\* the vn estimator
InitVn == InitWith(Calls_get_ep_vn)
NextVn == Do_get_ep_vn
SpecVn == InitVn /\ [][NextVn]_vars

\* the whole path from the resolution to vn
InitFlow == InitWith(Calls_compute_resolution \cup Calls_get_ep_vn)
NextFlow ==
    \/ Do_compute_resolution
    \/ Do_get_ep_vn
SpecFlow == InitFlow /\ [][NextFlow]_vars

\* the triplet resolver
InitTriplets == InitWith(Calls_getListOfHisots)
NextTriplets == Do_getListOfHisots
SpecTriplets == InitTriplets /\ [][NextTriplets]_vars

\* the profile projector
InitMass == InitWith(Calls_get_vn_versus_mass)
NextMass == Do_get_vn_versus_mass
SpecMass == InitMass /\ [][NextMass]_vars

\* the upstream files
InitFiles == InitWith(Calls_check_histo_exists \cup Calls_getD0ReflHistos)
NextFiles ==
    \/ Do_check_histo_exists
    \/ Do_getD0ReflHistos
SpecFiles == InitFiles /\ [][NextFiles]_vars

Init ==
    InitWith(Calls_compute_resolution \cup Calls_get_resolution
             \cup Calls_compute_r2 \cup Calls_get_ep_vn
             \cup Calls_getListOfHisots \cup Calls_get_vn_versus_mass
             \cup Calls_check_histo_exists \cup Calls_getD0ReflHistos)

Next ==
    \/ Do_compute_resolution
    \/ Do_get_resolution
    \/ Do_compute_r2
    \/ Do_get_ep_vn
    \/ Do_getListOfHisots
    \/ Do_get_vn_versus_mass
    \/ Do_check_histo_exists
    \/ Do_getD0ReflHistos

Spec == Init /\ [][Next]_vars

----------------------------------------------------------------------------
(* Properties                                                              *)

Done(fn) == pc # "called" /\ call.fn = fn

\* v is the non-negative square root of the rational q > 0
IsSqrtOf(v, q) == IsFinite(v) /\ IsPositive(v) /\ RealMul(v, v) = FromRat(q)

Sentinel999 == FromInt(-999)

\* C1: compute_resolution on three means (AB, AC, BC) returns 0 when BC = 0,
\* the square root of (AB*AC)/BC when that quotient is positive and 0 when
\* it is not; the value is never negative and never -999.
C1_ThreeSubevents ==
    (Done("compute_resolution") /\ Len(call.subMean) = 3) =>
        LET AB == call.subMean[1]
            AC == call.subMean[2]
            BC == call.subMean[3]
            q  == RatDiv(RatMul(AB, AC), BC)
        IN  /\ result.status = "return"
            /\ BC.n = 0 => result.value = Zero
            /\ (BC.n # 0 /\ q.n > 0) => IsSqrtOf(result.value, q)
            /\ (BC.n # 0 /\ q.n <= 0) => result.value = Zero
            /\ ~IsNegative(result.value)
            /\ result.value # Sentinel999

\* a three-mean call whose result is an irrational root
C1_Witness ==
    /\ Done("compute_resolution") /\ Len(call.subMean) = 3
    /\ call.subMean[3].n # 0
    /\ result.status = "return" /\ result.value.r = 2

\* C2: compute_resolution on one mean returns sqrt(mean) for mean > 0 and
\* exactly 0 for mean <= 0.
C2_OneSubevent ==
    (Done("compute_resolution") /\ Len(call.subMean) = 1) =>
        LET mean == call.subMean[1]
        IN  /\ result.status = "return"
            /\ mean.n > 0 => IsSqrtOf(result.value, mean)
            /\ mean.n <= 0 => result.value = Zero

C2_Witness ==
    /\ Done("compute_resolution") /\ Len(call.subMean) = 1
    /\ call.subMean[1].n > 0 /\ call.subMean[1].d = 2
    /\ result.status = "return" /\ result.value.r = 2

\* C3: compute_resolution on a list of length other than 1 or 3 ends the run
\* (exit status 1) without a value, and so does get_resolution on two
\* detector histograms.
C3_InvalidCardinality ==
    /\ (Done("compute_resolution") /\ Len(call.subMean) \notin {1, 3}) =>
            (pc = "exited" /\ result = SysExit(1))
    /\ (Done("get_resolution") /\ Len(call.dets) = 2) =>
            (pc = "exited" /\ result = SysExit(1))

C3_Witness ==
    /\ Done("get_resolution") /\ Len(call.dets) = 2 /\ pc = "exited"
    /\ call.cent_min_max = <<0, 2>>

\* integer form of the inputs of get_ep_vn
VnS == call.nIn.n + call.nOut.n
VnH2 == call.harmonic * call.harmonic
\* corr.d * (nIn+nOut)^4 * variance, from the closed formula
\* 4 nOut^2 uIn^2 + 4 nIn^2 uOut^2 - 8 nIn nOut uIn uOut corr
VnW ==
    (4 * call.nOut.n * call.nOut.n * call.nInUnc.n * call.nInUnc.n
     + 4 * call.nIn.n * call.nIn.n * call.nOutUnc.n * call.nOutUnc.n) * call.corr.d
    - 8 * call.nIn.n * call.nOut.n * call.nInUnc.n * call.nOutUnc.n * call.corr.n
VnS4 == VnS * VnS * VnS * VnS
ZeroPair == <<Zero, Zero>>

\* C4: get_ep_vn returns exactly (0, 0) when nIn + nOut = 0 and when the
\* propagated variance is negative; otherwise, for resol /= 0, it returns
\* the pair of the formula, which is (0, 0) only if the formula gives it.
C4_ZeroPairGuards ==
    Done("get_ep_vn") =>
        /\ VnS = 0 => result = Return(ZeroPair)
        /\ (VnS # 0 /\ VnW < 0) => result = Return(ZeroPair)
        /\ (VnS # 0 /\ VnW >= 0 /\ ~IsZero(call.resol)) =>
            /\ result.status = "return"
            /\ LET scale == RealMul(FromInt(VnH2), call.resol)
                   vn == result.value[1]
                   vu == RealMul(result.value[2], scale)
               IN  /\ RealMul(RealMul(vn, scale), FromInt(VnS))
                        = RealMul(Pi, FromInt(call.nIn.n - call.nOut.n))
                   /\ RealMul(RealMul(vu, vu), FromInt(VnS4 * call.corr.d))
                        = RealMul(RealMul(Pi, Pi), FromInt(VnW))
                   /\ ~IsNegative(result.value[2])
            /\ result.value = ZeroPair => (call.nIn = call.nOut /\ VnW = 0)

\* a rejected negative variance with a non-zero total
C4_Witness ==
    /\ Done("get_ep_vn") /\ VnS # 0 /\ VnW < 0
    /\ call.nIn # call.nOut
    /\ result = Return(ZeroPair)

\* C5: for nIn + nOut /= 0 the derivatives are 2 nOut/(nIn+nOut)^2 and
\* -2 nIn/(nIn+nOut)^2 and the variance times (nIn+nOut)^4 is
\* 4 nOut^2 uIn^2 + 4 nIn^2 uOut^2 - 8 nIn nOut uIn uOut corr; for resol /= 0
\* a result of the formula is A and sqrt(variance), both times
\* pi/(harmonic^2 resol), so that nIn = nOut /= 0 gives vn = 0.
C5_Propagation ==
    (Done("get_ep_vn") /\ VnS # 0) =>
        LET variance == anisunc_of(call.nIn, call.nInUnc, call.nOut,
                                   call.nOutUnc, call.corr)
        IN  /\ RatMul(anisDerivIn_of(call.nIn, call.nOut), RInt(VnS * VnS))
                 = RInt(2 * call.nOut.n)
            /\ RatMul(anisDerivOut_of(call.nIn, call.nOut), RInt(VnS * VnS))
                 = RInt(-2 * call.nIn.n)
            /\ RatMul(variance, RInt(VnS4 * call.corr.d)) = RInt(VnW)
            /\ (VnW >= 0 /\ ~IsZero(call.resol)) =>
                  LET factor == RealDiv(Pi, RealMul(FromInt(VnH2), call.resol))
                  IN  /\ result.status = "return"
                      /\ result.value[1]
                           = RealMul(FromRat(Rat(call.nIn.n - call.nOut.n, VnS)), factor)
                      /\ result.value[2]
                           = RealMul(Sqrt(Rat(VnW, VnS4 * call.corr.d)), factor)
            /\ (call.nIn = call.nOut /\ ~IsZero(call.resol)) =>
                  (result.status = "return" /\ result.value[1] = Zero)

\* correlated, unequal yields with both uncertainties, corrected by an
\* irrational resolution
C5_Witness ==
    /\ Done("get_ep_vn") /\ VnS # 0 /\ VnW > 0
    /\ call.corr.n # 0 /\ call.nIn.n > call.nOut.n /\ call.nOut.n > 0
    /\ call.nInUnc.n > 0 /\ call.nOutUnc.n > 0
    /\ call.resol.kind = "fin" /\ call.resol.r = 2
    /\ result.status = "return" /\ result.value[2] # Zero

\* the window means (AB, AC, BC) compute_r2 forms for its call
R2Means == r2_means(call.hists, call.cent_min, call.cent_max)

\* C9: for its window means (AB, AC, BC) compute_r2 returns -999 when
\* BC = 0, -999 when (AB*AC)/BC <= 0 and the square root of (AB*AC)/BC
\* otherwise, never 0; on the same means compute_resolution returns the same
\* value exactly when that value is positive, and otherwise the two return
\* their sentinels -999 and 0 together.
C9_R2Sentinel ==
    Done("compute_r2") =>
        LET means == R2Means
            AB == means[1]
            AC == means[2]
            BC == means[3]
            q  == RatDiv(RatMul(AB, AC), BC)
            v  == result.value
            cr == compute_resolution(means)
        IN  /\ result.status = "return"
            /\ BC.n = 0 => v = Sentinel999
            /\ (BC.n # 0 /\ q.n <= 0) => v = Sentinel999
            /\ (BC.n # 0 /\ q.n > 0) => IsSqrtOf(v, q)
            /\ v # Zero
            /\ cr.status = "return"
            /\ (cr.value = v) <=> IsPositive(v)
            /\ ~IsPositive(v) => (v = Sentinel999 /\ cr.value = Zero)

\* an undefined window (BC = 0 with AB*AC /= 0) reported as -999
C9_Witness ==
    /\ Done("compute_r2")
    /\ R2Means[3].n = 0 /\ R2Means[1].n # 0 /\ R2Means[2].n # 0
    /\ result = Return(Sentinel999)

\* C10 (as claimed): every call of compute_resolution with one or three
\* means returns a value, and every call of get_ep_vn returns a pair,
\* whatever the numeric input, a resolution of 0 included.
C10_NoFatalNumeric ==
    /\ (Done("compute_resolution") /\ Len(call.subMean) \in {1, 3}) =>
            result.status = "return"
    /\ Done("get_ep_vn") => result.status = "return"

\* the two detector labels of record i of the directory
DetSet(i) == { detsA[call.records[i][1]], detsA[call.records[i][2]] }

CanonicalLabels == { detsA[i] : i \in 1..Len(detsA) }

Perms3 == { p \in [1..3 -> 1..3] : \A i, j \in 1..3 : i # j => p[i] # p[j] }

\* what getListOfHisots returns when the three keys come in the order p
LabelsInOrder(p) ==
    getListOfHisots([i \in 1..3 |-> call.pairs[p[i]]],
                    call.vn_method).value.correct_histo_labels

Shared(i, j) ==
    LET I == DetSet(i) \cap DetSet(j)
    IN  IF Cardinality(I) = 1 THEN CHOOSE x \in I : TRUE ELSE <<>>

NativeBinsIn(lo, hi) == { b \in 1..NMassBins : lo <= b - 1 /\ b - 1 < hi }

\* the mean of vn over a set of native mass bins
MeanOverBins(h, B) ==
    LET RECURSIVE Sum(_, _)
        Sum(S, f) == IF S = {} THEN 0
                     ELSE LET b == CHOOSE x \in S : TRUE
                          IN  h[b][f] + Sum(S \ {b}, f)
    IN  IF Sum(B, "n") = 0 THEN RInt(0) ELSE Rat(Sum(B, "s"), Sum(B, "n"))

\* the native bins the call uses for profile bin i
UsedBins(i) ==
    bin_low_of(call.inv_mass_bins, i) .. bin_high_of(call.inv_mass_bins, i)

\* C8 (as claimed): the profile has len(inv_mass_bins) - 1 bins, bin i is
\* the mean over exactly the native bins in [inv_mass_bins[i],
\* inv_mass_bins[i+1]), and no native bin is used for two consecutive
\* profile bins.
C8_HalfOpenMassBins ==
    Done("get_vn_versus_mass") =>
        LET e == call.inv_mass_bins
            prof == result.value
        IN  /\ result.status = "return"
            /\ Len(prof) = Len(e) - 1
            /\ \A i \in 1..(Len(e) - 1) :
                  prof[i] = MeanOverBins(call.hist_vn_proj, NativeBinsIn(e[i], e[i + 1]))
            /\ \A i \in 1..(Len(e) - 2) : UsedBins(i) \cap UsedBins(i + 1) = {}

\* the pT bins of the call and the three names read for each
PtBinsOfCall == zip(call.ptMins, call.ptMaxs)

MissingForSomePtBin ==
    \E i \in 1..Len(PtBinsOfCall) : \E k \in ReflKinds :
        histo_name_of(k, PtBinsOfCall[i][1], PtBinsOfCall[i][2])
            \notin call.reflFile.keys

\* C11 (as claimed): a missing resource is reported as a flag and never
\* raises: getD0ReflHistos returns False when the reflection file is absent
\* and when, for some pT bin, hFDMass, hPromptMass or hVarReflMass is not
\* in the file; check_histo_exists returns False when the file or the named
\* histogram is absent.
C11_MissingResourceFlag ==
    /\ Done("getD0ReflHistos") =>
          /\ result.status = "return"
          /\ (~call.reflFile.exists \/ MissingForSomePtBin)
                => result = Return(FALSE)
    /\ Done("check_histo_exists") =>
          /\ result.status = "return"
          /\ (~call.file.exists \/ call.histo_name \notin call.file.keys)
                => result = Return(FALSE)

\* the native centrality bins whose range [b-1, b) lies in [lo, hi)
CentBinsIn(lo, hi) == { b \in 1..NCentBins : lo <= b - 1 /\ b - 1 < hi }

\* C12 (as claimed): for a window [cent_min, cent_max) the window mean is
\* the mean over exactly the native 1% bins c with cent_min <= c < cent_max,
\* the bin holding cent_max left out, in get_resolution's CentMin-CentMax
\* means and in the means compute_r2 puts into its formula alike.
C12_HalfOpenCentralityWindow ==
    /\ (Done("get_resolution") /\ result.status = "return") =>
          \A i \in 1..Len(call.dets) :
              result.value.histo_means_deltacent[i]
                  = MeanOverBins(call.dets[i],
                                 CentBinsIn(call.cent_min_max[1],
                                            call.cent_min_max[2]))
    /\ Done("compute_r2") =>
          result = Return(r2_formula(
                       [i \in 1..3 |->
                           MeanOverBins(call.hists[i],
                                        CentBinsIn(call.cent_min, call.cent_max))]))

====
